---- MODULE Spec2Model ----
(***************************************************************************)
(* pmux: a user-space process supervisor.                                  *)
(*                                                                         *)
(* The model follows the three generations of the supervision code that    *)
(* the repository holds:                                                   *)
(*   "lib"   src/pmuxlib/proc.go            (process groups, ctx.Err)      *)
(*   "proc3" src/pmuxproc/pmuxproc.go:78    (three loggers, kill only)     *)
(*   "proc1" src/pmuxproc/pmuxproc.go:307   (one logger, interrupt+kill)   *)
(* and, for the label column of the log lines only, the logger of the      *)
(* program that precedes them:                                             *)
(*   "flat"  src/pmux-example.yml:80        (one logger, labels passed     *)
(*                                           to Println)                   *)
(* One supervisor goroutine (RunProcess) per configured process calls      *)
(* RunProcessOnce in a loop; every RunProcessOnce owns two output relays   *)
(* (fwdOutPipe) and one signal escalator goroutine.  The child process,    *)
(* its pipes, the wall clock and the termination request are the           *)
(* environment.                                                            *)
(*                                                                         *)
(* Durations are counted in half milliseconds (Millisecond == 2), so that  *)
(* Truncate(time.Millisecond) has something to cut.                        *)
(***************************************************************************)
EXTENDS Integers, Sequences, FiniteSets, TLC

VARIABLES
    variant,    \* which generation of the code runs
    cfg,        \* process name -> ProcessConfig (after withDefaults)
    ctxDone,    \* the shared context has been cancelled
    prog,       \* "run", or "panic" once a goroutine has panicked
    pc,         \* supervisor position, per process
    attempts,   \* RunProcessOnce invocations so far, per process
    startsAfterCancel, \* those of them made with the context already cancelled
    wait,       \* RunProcess's wait variable
    took,       \* time.Since(start) of the last attempt, in half milliseconds
    result,     \* what the last RunProcessOnce returned
    supLog,     \* lines RunProcess has logged since the last RunProcessOnce call
    proc,       \* the child process of the current attempt
    pipe,       \* the child's stdout/stderr pipes
    relay,      \* the two fwdOutPipe goroutines of the current attempt
    relayLog,   \* "reading output" lines and the sink each went to
    fwd,        \* output lines forwarded by the relays of the current attempt
    unread,     \* lines written to each pipe of the attempt and not read yet
    esc,        \* the escalator goroutine of the current attempt
    stopCh,     \* stopCh of the current attempt is closed
    timer,      \* half milliseconds, time.After(SigKillWait) has been running
    sent,       \* signals the escalator has sent in the current attempt
    escLog,     \* lines the escalator has logged in the current attempt
    timeFmt,    \* cfg.TimeFormat is set: every line starts with a timestamp
    sink,       \* root logger -> its mutex, bufio.Writer, destination, flusher
    target,     \* logger struct (root or view) -> where its out / outBuf point
    writer,     \* the goroutines that log through a view of their own
    closer,     \* main and the signal goroutine: position and Close in progress
    maxPNameLen, \* root logger -> *maxPNameLen, the label width of its lines
    pname,      \* logger struct -> its pname, the label of its lines
    padding     \* goroutine -> width read and Repeat count of its last println

vars == <<variant, cfg, ctxDone, prog, pc, attempts, startsAfterCancel, wait,
          took, result, supLog, proc, pipe, relay, relayLog, fwd, unread, esc,
          stopCh, timer, sent, escLog, timeFmt, sink, target, writer, closer,
          maxPNameLen, pname, padding>>

\* The state of the loggers, of main and of the signal goroutine.
logVars == <<timeFmt, sink, target, writer, closer, maxPNameLen, pname, padding>>

\* The label column of the loggers.
labelVars == <<maxPNameLen, pname, padding>>

(***************************************************************************)
(* Bounds of the model.                                                    *)
(***************************************************************************)
\* RunProcessOnce invocations explored per supervisor.
MaxAttempts == 3
\* Largest duration of one attempt (time.Since(start)), in half milliseconds.
MaxTook == 12
\* Output lines explored per attempt.
MaxLines == 1
\* Lines each logging goroutine writes through its view.
MaxWrites == 2
\* Fragments the bufio.Writer of a logger holds before it writes them out by
\* itself (4096 bytes in the code).
BufCap == 2

(***************************************************************************)
(* Program constants.                                                      *)
(***************************************************************************)
\* time.Millisecond, in the model's half milliseconds.
Millisecond == 2

Variants == {"lib", "proc3", "proc1"}
Streams == {"stdout", "stderr"}
\* Exit statuses a child process leaves with of its own accord.
ExitCodes == {0, 3}

\* ProcessConfig / Config: the fields RunProcess reads.
ProcessConfig(name, noRestartOn, minWait, maxWait, sigKillWait) ==
    [Name |-> name, NoRestartOn |-> noRestartOn, MinWait |-> minWait,
     MaxWait |-> maxWait, SigKillWait |-> sigKillWait]

\* cfg.withDefaults(): a zero duration takes the default (1 s, 64 s, 10 s).
withDefaults(c) ==
    [c EXCEPT !.MinWait = IF @ = 0 THEN 1000 * Millisecond ELSE @,
              !.MaxWait = IF @ = 0 THEN 64000 * Millisecond ELSE @,
              !.SigKillWait = IF @ = 0 THEN 10000 * Millisecond ELSE @]

\* The noRestartOn lists explored.
NoRestartChoices == {<<>>, <<3>>, <<0, -1>>}

\* The process names a configuration file may hold, and the one process of
\* the configurations that Spec explores.
Procs == {"pinger", "ponger"}
OneProcess == {"pinger"}

\* The configurations explored: minWait 1ms, maxWait 3ms, sigKillWait 1ms.
Configs ==
    {[p \in Procs |-> withDefaults(ProcessConfig(p, nr, 2, 6, 2))] :
        nr \in NoRestartChoices}

\* for i := range cfg.NoRestartOn { if cfg.NoRestartOn[i] == exitCode ...
InNoRestartOn(p, code) ==
    \E i \in 1..Len(cfg[p].NoRestartOn) : cfg[p].NoRestartOn[i] = code

\* Duration.Truncate(m): rounds toward zero to a multiple of m.
Truncate(d, m) == IF d >= 0 THEN d - (d % m) ELSE -((-d) - ((-d) % m))

\* Mutant: the wait is not held down to MaxWait.
NextWait_NoCeiling(p, w, d) ==
    LET t == Truncate((w * 2) - d, Millisecond)
    IN  IF t < cfg[p].MinWait THEN cfg[p].MinWait ELSE t

\* Mutant: the wait is not doubled before the duration is taken off.
NextWait_NoDouble(p, w, d) ==
    LET t == Truncate(w - d, Millisecond)
    IN  IF t < cfg[p].MinWait THEN cfg[p].MinWait
        ELSE IF t > cfg[p].MaxWait THEN cfg[p].MaxWait
        ELSE t

\* Mutant: the duration of the attempt is not taken off.
NextWait_NoTook(p, w, d) ==
    LET t == Truncate(w * 2, Millisecond)
    IN  IF t < cfg[p].MinWait THEN cfg[p].MinWait
        ELSE IF t > cfg[p].MaxWait THEN cfg[p].MaxWait
        ELSE t

\* Mutant: the wait is not held up to MinWait.
NextWait_NoFloor(p, w, d) ==
    LET t == Truncate((w * 2) - d, Millisecond)
    IN  IF t > cfg[p].MaxWait THEN cfg[p].MaxWait ELSE t

\* wait = ((wait * 2) - took).Truncate(time.Millisecond), then the clamp.
NextWait(p, w, d) ==
    LET t == Truncate((w * 2) - d, Millisecond)
    IN  IF t < cfg[p].MinWait THEN cfg[p].MinWait
        ELSE IF t > cfg[p].MaxWait THEN cfg[p].MaxWait
        ELSE t

NoProc == [st |-> "none", code |-> 0, signaled |-> FALSE, by |-> "none",
           ign |-> FALSE, self |-> FALSE, pending |-> "none"]
NoResult == [code |-> 0, err |-> "none"]

\* cmd.Wait()'s error: non-nil for a non-zero exit status or a death by signal.
WaitErr(pr) == pr.signaled \/ pr.code # 0
\* cmd.ProcessState.ExitCode(): -1 for a process a signal killed.
ExitCode(pr) == IF pr.signaled THEN -1 ELSE pr.code

(***************************************************************************)
(* The loggers: structures.                                                *)
(***************************************************************************)
\* main.go (with pmuxproc's one-logger RunProcess) has one root logger over
\* os.Stdout with a background flusher, and so has the program before it;
\* unnamed/part_001 and pmuxlib have two roots, over os.Stdout and os.Stderr,
\* that flush at the end of every line.
Buffered(v) == v \in {"proc1", "flat"}

\* The logger that has no views: every goroutine logs through the one struct
\* and passes its label to Println.
Flat(v) == v = "flat"

\* The generations of the logger.
Generations == Variants \cup {"flat"}

\* pname used by pmux itself for logging.
pmuxPName == "pmux"

\* The root loggers newLogger makes.
Roots == {"stdout", "stderr"}
\* The goroutines of a process handler that log through views of their own:
\* a relay (stderrLogger.withPName) and the supervisor (sysLogger.withPName).
Writers == {"relay", "sys"}
\* Every logger struct: the roots, sysLogger (stderrLogger.withSep) and the
\* views of the writers.
Handles == Roots \cup {"sysLogger"} \cup Writers
\* The goroutines that call Close.
Closers == {"main", "sig"}
\* The goroutines that log.
Loggers == Writers \cup Closers

\* The root whose mutex, buffer and destination a logger struct shares.
RootOf(v, h) ==
    IF h \in Roots THEN h ELSE IF Buffered(v) THEN "stdout" ELSE "stderr"

\* The struct that a view is a copy of (l2 := *l).
ParentOf(v, h) ==
    IF Buffered(v) THEN "stdout"
    ELSE IF h = "sys" THEN "sysLogger" ELSE "stderr"

\* The logger through which main and the signal goroutine log, and which the
\* signal goroutine closes: logger in main.go, sysLogger otherwise.
SysHandle(v) == IF Buffered(v) THEN "stdout" ELSE "sysLogger"

\* The deferred Close calls of main / Run, in the order they run.
CloseOrder(v) == IF Buffered(v) THEN <<"stdout">> ELSE <<"stderr", "stdout">>

\* newLogger: free mutex, empty bufio.Writer over the destination, and in
\* main.go the flusher goroutine with its open closeCh.
NewSink(v, r) ==
    [mu |-> "free", buf |-> <<>>, dest |-> <<>>, closeCh |-> FALSE,
     flusher |-> IF Buffered(v) /\ r = "stdout" THEN "select" ELSE "none"]

\* Where out and outBuf of each struct point when main has made its loggers:
\* the roots and sysLogger at the real destination, no view of a writer yet.
NewTarget(v, h) ==
    IF h \in Writers THEN "none"
    ELSE IF Buffered(v) /\ h # "stdout" THEN "none"
    ELSE "real"

\* newLogger, the label width: len(pmuxPName), to which withPName / WithPrefix
\* add; in the flat logger the longest of possiblePNames and one more.
newLoggerWidth(v, possiblePNames) ==
    IF Flat(v)
    THEN LET lens == {Len(n) : n \in possiblePNames}
         IN  (IF lens = {} THEN 0
              ELSE CHOOSE m \in lens : \A k \in lens : k <= m) + 1
    ELSE Len(pmuxPName)

\* Mutant: a registration sets the width to the length of the new label.
RegisterWidth_Assign(cur, name) == Len(name)

\* if pnameLen := uint64(len(pname)); pnameLen > *l2.maxPNameLen { ... }
RegisterWidth(cur, name) == IF Len(name) > cur THEN Len(name) ELSE cur

\* The count println hands to strings.Repeat(" ", ...).
PaddingCount(v, width, name) ==
    IF Flat(v) THEN width - Len(name) ELSE width + 1 - Len(name)

\* No line written yet.
NoPadding == [width |-> 0, count |-> 0]

\* The state Run / main starts from when the configuration lists the
\* processes ps: one supervisor per listed process, at the top of its loop,
\* with wait = 0; pc = "none" is a name the configuration does not list.
Idle(ps) ==
    /\ ctxDone = FALSE
    /\ prog = "run"
    /\ pc = [p \in Procs |-> IF p \in ps THEN "start" ELSE "none"]
    /\ attempts = [p \in Procs |-> 0]
    /\ startsAfterCancel = [p \in Procs |-> 0]
    /\ wait = [p \in Procs |-> 0]
    /\ took = [p \in Procs |-> 0]
    /\ result = [p \in Procs |-> NoResult]
    /\ supLog = [p \in Procs |-> <<>>]
    /\ proc = [p \in Procs |-> NoProc]
    /\ pipe = [p \in Procs |-> "none"]
    /\ relay = [p \in Procs |-> [s \in Streams |-> "none"]]
    /\ relayLog = [p \in Procs |-> {}]
    /\ fwd = [p \in Procs |-> 0]
    /\ unread = [p \in Procs |-> [s \in Streams |-> 0]]
    /\ esc = [p \in Procs |-> "none"]
    /\ stopCh = [p \in Procs |-> FALSE]
    /\ timer = [p \in Procs |-> 0]
    /\ sent = [p \in Procs |-> <<>>]
    /\ escLog = [p \in Procs |-> <<>>]
    /\ sink = [r \in Roots |-> NewSink(variant, r)]
    /\ target = [h \in Handles |-> NewTarget(variant, h)]
    /\ writer = [w \in Writers |-> [pc |-> "none", n |-> 0]]
    /\ closer = [c \in Closers |->
                    [pc |-> IF c = "main" THEN "wgWait" ELSE "idle", i |-> 1]]
    /\ maxPNameLen =
           [r \in Roots |-> newLoggerWidth(variant, {cfg[p].Name : p \in ps})]
    /\ pname = [h \in Handles |-> IF h \in Writers THEN "" ELSE pmuxPName]
    /\ padding = [b \in Loggers |-> NoPadding]

Init ==
    /\ variant \in Variants
    /\ cfg \in Configs
    /\ timeFmt = FALSE
    /\ Idle(OneProcess)


(***************************************************************************)
(* RunProcessOnce: set-up.                                                 *)
(***************************************************************************)
\* State of a fresh attempt that all three outcomes of the set-up share.
FreshAttempt(p) ==
    /\ attempts' = [attempts EXCEPT ![p] = @ + 1]
    /\ startsAfterCancel' =
           [startsAfterCancel EXCEPT ![p] = IF ctxDone THEN @ + 1 ELSE @]
    /\ supLog' = [supLog EXCEPT ![p] = <<>>]
    /\ relayLog' = [relayLog EXCEPT ![p] = {}]
    /\ fwd' = [fwd EXCEPT ![p] = 0]
    /\ unread' = [unread EXCEPT ![p] = [s \in Streams |-> 0]]
    /\ stopCh' = [stopCh EXCEPT ![p] = FALSE]
    /\ timer' = [timer EXCEPT ![p] = 0]
    /\ sent' = [sent EXCEPT ![p] = <<>>]
    /\ escLog' = [escLog EXCEPT ![p] = <<>>]

\* The goroutines of the previous attempt have finished.  They are runnable
\* from the moment the attempt returns, and the supervisor sleeps at least
\* MinWait before it calls RunProcessOnce again.
PreviousRetired(p) ==
    /\ \A s \in Streams : relay[p][s] # "reading"
    /\ esc[p] \notin {"sel1", "sel2"}

\* The supervisor is at the top of its loop and calls RunProcessOnce.
CanEnter(p) ==
    /\ prog = "run"
    /\ pc[p] = "start"
    /\ attempts[p] < MaxAttempts
    /\ PreviousRetired(p)

\* cmd.StdoutPipe() or cmd.StderrPipe() fails: return -1 before any goroutine
\* has been started.
PipeFail(p) ==
    /\ CanEnter(p)
    /\ FreshAttempt(p)
    /\ result' = [result EXCEPT ![p] = [code |-> -1, err |-> "start"]]
    /\ pc' = [pc EXCEPT ![p] = "ret"]
    /\ proc' = [proc EXCEPT ![p] = NoProc]
    /\ pipe' = [pipe EXCEPT ![p] = "none"]
    /\ relay' = [relay EXCEPT ![p] = [s \in Streams |-> "none"]]
    /\ esc' = [esc EXCEPT ![p] = "none"]
    /\ UNCHANGED <<logVars, variant, cfg, ctxDone, prog, wait, took>>

\* Both fwdOutPipe goroutines are started, then cmd.Start() fails: exec closes
\* both ends of the pipes and RunProcessOnce returns -1 without wg.Wait().
StartFail(p) ==
    /\ CanEnter(p)
    /\ FreshAttempt(p)
    /\ result' = [result EXCEPT ![p] = [code |-> -1, err |-> "start"]]
    /\ pc' = [pc EXCEPT ![p] = "ret"]
    /\ proc' = [proc EXCEPT ![p] = NoProc]
    /\ pipe' = [pipe EXCEPT ![p] = "closed"]
    /\ relay' = [relay EXCEPT ![p] = [s \in Streams |-> "reading"]]
    /\ esc' = [esc EXCEPT ![p] = "none"]
    /\ UNCHANGED <<logVars, variant, cfg, ctxDone, prog, wait, took>>

\* Both relays are started, cmd.Start() succeeds, the escalator is started and
\* RunProcessOnce blocks in wg.Wait().  The child is a process that does or
\* does not exit by itself, and that does or does not ignore the interrupt.
StartOK(p) ==
    /\ CanEnter(p)
    /\ FreshAttempt(p)
    /\ \E ign \in BOOLEAN, self \in BOOLEAN :
          proc' = [proc EXCEPT ![p] =
                      [NoProc EXCEPT !.st = "running", !.ign = ign,
                                     !.self = self]]
    /\ pipe' = [pipe EXCEPT ![p] = "open"]
    /\ relay' = [relay EXCEPT ![p] = [s \in Streams |-> "reading"]]
    /\ esc' = [esc EXCEPT ![p] = "sel1"]
    /\ pc' = [pc EXCEPT ![p] = "wgWait"]
    /\ UNCHANGED <<logVars, variant, cfg, ctxDone, prog, wait, took, result>>

(***************************************************************************)
(* The output relays (fwdOutPipe).                                         *)
(***************************************************************************)
relayUnchanged ==
    <<logVars, variant, cfg, ctxDone, prog, pc, attempts, startsAfterCancel, wait, took,
      result, supLog, proc, pipe, esc, stopCh, timer, sent, escLog>>

\* bufR.ReadString('\n') returns a line that the pipe holds; logger.Println
\* forwards it.
RelayLine(p, s) ==
    /\ prog = "run"
    /\ relay[p][s] = "reading"
    /\ unread[p][s] > 0
    /\ unread' = [unread EXCEPT ![p][s] = @ - 1]
    /\ fwd' = [fwd EXCEPT ![p] = @ + 1]
    /\ UNCHANGED <<relayUnchanged, relay, relayLog>>

\* ReadString returns io.EOF: the writers of the pipe are gone and the pipe
\* is empty.
RelayEOF(p, s) ==
    /\ prog = "run"
    /\ relay[p][s] = "reading"
    /\ pipe[p] \in {"eof", "closed"}
    /\ unread[p][s] = 0
    /\ relay' = [relay EXCEPT ![p][s] = "eof"]
    /\ UNCHANGED <<relayUnchanged, relayLog, fwd, unread>>

\* ReadString returns another error (the read end was closed under the relay,
\* or the read failed): logger.Printf("reading output: %v", err) on the
\* logger the relay was given, which is the sink of its own stream.
RelayErr(p, s) ==
    /\ prog = "run"
    /\ relay[p][s] = "reading"
    /\ relay' = [relay EXCEPT ![p][s] = "err"]
    /\ relayLog' = [relayLog EXCEPT ![p] = @ \cup {[stream |-> s, sink |-> s]}]
    /\ UNCHANGED <<relayUnchanged, fwd, unread>>

(***************************************************************************)
(* RunProcessOnce: waiting and the result.                                 *)
(***************************************************************************)
\* Mutant: RunProcessOnce does not wait for its relays.
RelaysDone_NoWait(p) == TRUE

\* Mutant: only the stdout relay is counted in the wait group.
RelaysDone_StdoutOnly(p) == relay[p]["stdout"] \in {"eof", "err"}

\* wg.Wait() returns once both relays have called wg.Done().
RelaysDone(p) == \A s \in Streams : relay[p][s] \in {"eof", "err"}

WgWait(p) ==
    /\ prog = "run"
    /\ pc[p] = "wgWait"
    /\ RelaysDone(p)
    /\ pc' = [pc EXCEPT ![p] = "cmdWait"]
    /\ UNCHANGED <<logVars, variant, cfg, ctxDone, prog, attempts, startsAfterCancel,
                   wait, took, result, supLog, proc, pipe, relay, relayLog, fwd, unread,
                   esc, stopCh, timer, sent, escLog>>

\* cmd.Wait() returns: the child has exited and is reaped, the pipes are closed
\* and what they still held is gone.
CmdWait(p) ==
    /\ prog = "run"
    /\ pc[p] = "cmdWait"
    /\ proc[p].st = "zombie"
    /\ proc' = [proc EXCEPT ![p].st = "reaped"]
    /\ pipe' = [pipe EXCEPT ![p] = "closed"]
    /\ unread' = [unread EXCEPT ![p] = [s \in Streams |-> 0]]
    /\ pc' = [pc EXCEPT ![p] = "closeStop"]
    /\ UNCHANGED <<logVars, variant, cfg, ctxDone, prog, attempts,
                   startsAfterCancel, wait, took, result, supLog, relay,
                   relayLog, fwd, esc, stopCh, timer, sent, escLog>>

\* Mutant: the result does not look at ctx.Err().
LibResult_NoCtxErr(cancelled, pr) ==
    IF WaitErr(pr) THEN [code |-> -1, err |-> "exited"]
    ELSE [code |-> ExitCode(pr), err |-> "nil"]

\* pmuxlib: -1 and ctx.Err() if the context is cancelled, -1 and "process
\* exited" if cmd.Wait() returned an error, the exit code and nil otherwise.
LibResult(cancelled, pr) ==
    IF cancelled THEN [code |-> -1, err |-> "ctx"]
    ELSE IF WaitErr(pr) THEN [code |-> -1, err |-> "exited"]
    ELSE [code |-> ExitCode(pr), err |-> "nil"]

\* pmuxproc: the exit code, with "process exited" if cmd.Wait() returned an
\* error.
ProcResult(pr) ==
    IF WaitErr(pr) THEN [code |-> ExitCode(pr), err |-> "exited"]
    ELSE [code |-> ExitCode(pr), err |-> "nil"]

RunOnceResult(v, cancelled, pr) ==
    IF v = "lib" THEN LibResult(cancelled, pr) ELSE ProcResult(pr)

\* close(stopCh), the result, return.
RunOnceReturn(p) ==
    /\ prog = "run"
    /\ pc[p] = "closeStop"
    /\ stopCh' = [stopCh EXCEPT ![p] = TRUE]
    /\ result' = [result EXCEPT ![p] = RunOnceResult(variant, ctxDone, proc[p])]
    /\ pc' = [pc EXCEPT ![p] = "ret"]
    /\ UNCHANGED <<logVars, variant, cfg, ctxDone, prog, attempts, startsAfterCancel,
                   wait, took, supLog, proc, pipe, relay, relayLog, fwd, unread, esc, timer,
                   sent, escLog>>


(***************************************************************************)
(* The escalator goroutine of RunProcessOnce.                              *)
(***************************************************************************)
\* What a signal does to the child: a running process gets it (a kill cannot
\* be replaced by a later interrupt); an exited one is beyond it.
Deliver(pr, sig) ==
    IF pr.st = "running"
    THEN [pr EXCEPT !.pending = IF sig = "KILL" \/ @ = "KILL" THEN "KILL" ELSE "INT"]
    ELSE pr

\* syscall.Signal's String(): what %v prints.
SignalName(sig) == IF sig = "KILL" THEN "killed" ELSE "interrupt"

Signal(sig, scope, p) == [sig |-> sig, scope |-> scope, late |-> stopCh[p]]

\* pmuxlib sigProcessGroup: log "sending <sig> signal", syscall.Kill(-pid),
\* panic if Kill returns an error.  Kill fails with ESRCH once the group
\* leader has been reaped and no other member is left in the group.
sigProcessGroup(p, sig) ==
    /\ escLog' = [escLog EXCEPT ![p] = Append(@, "sending " \o SignalName(sig) \o " signal")]
    /\ sent' = [sent EXCEPT ![p] = Append(@, Signal(sig, "group", p))]
    /\ \E killErr \in (IF proc[p].st = "reaped" THEN BOOLEAN ELSE {FALSE}) :
          /\ prog' = IF killErr THEN "panic" ELSE prog
          /\ proc' = [proc EXCEPT ![p] = Deliver(@, sig)]

\* pmuxproc: _ = proc.Signal(sig).  The error (os: process already finished)
\* is dropped.
procSignal(p, sig) ==
    /\ sent' = [sent EXCEPT ![p] = Append(@, Signal(sig, "process", p))]
    /\ proc' = [proc EXCEPT ![p] = Deliver(@, sig)]
    /\ prog' = prog

\* First select, case <-ctx.Done(): pmuxlib and the one-logger pmuxproc send
\* the interrupt, the three-logger pmuxproc sends nothing.  Then the second
\* select starts time.After(cfg.SigKillWait).
EscInterrupt(p) ==
    CASE variant = "lib" -> sigProcessGroup(p, "INT")
      [] variant = "proc1" -> procSignal(p, "INT") /\ UNCHANGED escLog
      [] variant = "proc3" -> UNCHANGED <<sent, proc, prog, escLog>>

\* Mutant: the first select signals without waiting for ctx.Done().
EscCancel_Unconditional(p) ==
    /\ prog = "run"
    /\ esc[p] = "sel1"
    /\ EscInterrupt(p)
    /\ esc' = [esc EXCEPT ![p] = "sel2"]
    /\ timer' = [timer EXCEPT ![p] = 0]
    /\ UNCHANGED <<logVars, variant, cfg, ctxDone, pc, attempts, startsAfterCancel,
                   wait, took, result, supLog, pipe, relay, relayLog, fwd, unread, stopCh>>

EscCancel(p) ==
    /\ prog = "run"
    /\ esc[p] = "sel1"
    /\ ctxDone
    /\ EscInterrupt(p)
    /\ esc' = [esc EXCEPT ![p] = "sel2"]
    /\ timer' = [timer EXCEPT ![p] = 0]
    /\ UNCHANGED <<logVars, variant, cfg, ctxDone, pc, attempts, startsAfterCancel,
                   wait, took, result, supLog, pipe, relay, relayLog, fwd, unread, stopCh>>

\* Mutant: the timer of the second select fires at once.
TimerFired_AtOnce(p) == TRUE

\* time.After(cfg.SigKillWait) has fired.
TimerFired(p) == timer[p] >= cfg[p].SigKillWait

\* Mutant: the first select has no stopCh case.
EscStop_SecondSelectOnly(p) ==
    /\ prog = "run"
    /\ esc[p] = "sel2" /\ ~TimerFired(p)
    /\ stopCh[p]
    /\ esc' = [esc EXCEPT ![p] = "done"]
    /\ UNCHANGED <<logVars, variant, cfg, ctxDone, prog, pc, attempts,
                   startsAfterCancel, wait, took, result, supLog, proc, pipe, relay,
                   relayLog, fwd, unread, stopCh, timer, sent, escLog>>

\* Either select, case <-stopCh: the escalator returns.  In the first select
\* the escalator may find both channels ready and take either; in the second
\* it is parked before either is, and the one that comes first wakes it.
EscStop(p) ==
    /\ prog = "run"
    /\ \/ esc[p] = "sel1"
       \/ esc[p] = "sel2" /\ ~TimerFired(p)
    /\ stopCh[p]
    /\ esc' = [esc EXCEPT ![p] = "done"]
    /\ UNCHANGED <<logVars, variant, cfg, ctxDone, prog, pc, attempts,
                   startsAfterCancel, wait, took, result, supLog, proc, pipe, relay,
                   relayLog, fwd, unread, stopCh, timer, sent, escLog>>

\* Half a millisecond passes for the timer of the second select, for as long
\* as the escalator is parked in it.
Tick(p) ==
    /\ prog = "run"
    /\ esc[p] = "sel2"
    /\ ~stopCh[p]
    /\ timer[p] < cfg[p].SigKillWait
    /\ timer' = [timer EXCEPT ![p] = @ + 1]
    /\ UNCHANGED <<logVars, variant, cfg, ctxDone, prog, pc, attempts,
                   startsAfterCancel, wait, took, result, supLog, proc, pipe, relay,
                   relayLog, fwd, unread, esc, stopCh, sent, escLog>>

\* Second select, case <-time.After(cfg.SigKillWait): the kill.
EscForceKill(p) ==
    CASE variant = "lib" -> sigProcessGroup(p, "KILL")
      [] OTHER ->
            /\ escLog' = [escLog EXCEPT ![p] = Append(@, "forcefully killing process")]
            /\ procSignal(p, "KILL")

EscKill(p) ==
    /\ prog = "run"
    /\ esc[p] = "sel2"
    /\ TimerFired(p)
    /\ EscForceKill(p)
    /\ esc' = [esc EXCEPT ![p] = "done"]
    /\ UNCHANGED <<logVars, variant, cfg, ctxDone, pc, attempts, startsAfterCancel,
                   wait, took, result, supLog, pipe, relay, relayLog, fwd, unread, stopCh,
                   timer>>

(***************************************************************************)
(* RunProcess: the supervisor loop.                                        *)
(***************************************************************************)
\* The line logged for the result.  pmuxlib: "exited: <err>" or
\* "exit code: <code>".  pmuxproc: "exit code <code>, <err>" or "exit code 0".
ExitLine(v, res) ==
    IF v = "lib"
    THEN IF res.err # "nil"
         THEN [kind |-> "exit", hasCode |-> FALSE, code |-> 0, err |-> res.err]
         ELSE [kind |-> "exit", hasCode |-> TRUE, code |-> res.code, err |-> "nil"]
    ELSE IF res.err # "nil"
         THEN [kind |-> "exit", hasCode |-> TRUE, code |-> res.code, err |-> res.err]
         ELSE [kind |-> "exit", hasCode |-> TRUE, code |-> 0, err |-> "nil"]

RestartLine(w) == [kind |-> "restart", hasCode |-> FALSE, code |-> w, err |-> "nil"]

\* Mutant: the supervisor does not look at ctx.Err() after the attempt.
StopsRestarting_NoCtxErr(p, cancelled, res) ==
    InNoRestartOn(p, res.code)

\* Mutant: the supervisor does not look at NoRestartOn.
StopsRestarting_NoList(p, cancelled, res) ==
    cancelled

\* Mutant: a process that exits with status 0 is not restarted.
StopsRestarting_OnZero(p, cancelled, res) ==
    cancelled \/ InNoRestartOn(p, res.code) \/ res.code = 0

\* if ctx.Err() != nil { return }; for i := range cfg.NoRestartOn { ... return }
StopsRestarting(p, cancelled, res) ==
    cancelled \/ InNoRestartOn(p, res.code)

\* After RunProcessOnce has returned: took, the result line, the two checks,
\* the next wait and the "will restart" line.  took is a local of the loop
\* body: it is gone when RunProcess returns and when the body is left.
SupAfterRun(p) ==
    /\ prog = "run"
    /\ pc[p] = "ret"
    /\ \E d \in 0..MaxTook :
          IF StopsRestarting(p, ctxDone, result[p])
          THEN /\ supLog' = [supLog EXCEPT ![p] = Append(@, ExitLine(variant, result[p]))]
               /\ pc' = [pc EXCEPT ![p] = "stopped"]
               /\ wait' = wait
               /\ took' = [took EXCEPT ![p] = 0]
          ELSE /\ took' = [took EXCEPT ![p] = d]
               /\ wait' = [wait EXCEPT ![p] = NextWait(p, @, d)]
               /\ supLog' = [supLog EXCEPT ![p] =
                                @ \o <<ExitLine(variant, result[p]),
                                       RestartLine(NextWait(p, wait[p], d))>>]
               /\ pc' = [pc EXCEPT ![p] = "sleep"]
    /\ UNCHANGED <<logVars, variant, cfg, ctxDone, prog, attempts, startsAfterCancel,
                   result, proc, pipe, relay, relayLog, fwd, unread, esc, stopCh,
                   timer, sent, escLog>>

supUnchanged ==
    <<logVars, variant, cfg, ctxDone, prog, attempts, startsAfterCancel, wait, result,
      supLog, proc, pipe, relay, relayLog, fwd, unread, esc, stopCh, timer, sent,
      escLog>>

\* select, case <-time.After(wait): the timer fires while the supervisor is
\* parked in the select with the context not cancelled, and the supervisor is
\* woken for the top of the loop.  pc = "start" after a sleep is the supervisor
\* woken by its timer that has not run yet.
SleepTimer(p) ==
    /\ prog = "run"
    /\ pc[p] = "sleep"
    /\ ~ctxDone
    /\ pc' = [pc EXCEPT ![p] = "start"]
    /\ took' = [took EXCEPT ![p] = 0]
    /\ UNCHANGED supUnchanged

\* Mutant: the cancellation ends the sleep, and the loop goes on.
SleepCancel_Continues(p) ==
    /\ prog = "run"
    /\ pc[p] = "sleep"
    /\ ctxDone
    /\ pc' = [pc EXCEPT ![p] = "start"]
    /\ took' = [took EXCEPT ![p] = 0]
    /\ UNCHANGED supUnchanged

\* select, case <-ctx.Done(): the cancellation wakes the parked supervisor,
\* which returns.
SleepCancel(p) ==
    /\ prog = "run"
    /\ pc[p] = "sleep"
    /\ ctxDone
    /\ pc' = [pc EXCEPT ![p] = "stopped"]
    /\ took' = [took EXCEPT ![p] = 0]
    /\ UNCHANGED supUnchanged

\* The process handler of Run / main: RunProcess has returned, the deferred
\* "stopped process handler" line is logged and wg.Done() is called.
HandlerStop(p) ==
    /\ prog = "run"
    /\ pc[p] = "stopped"
    /\ pc' = [pc EXCEPT ![p] = "done"]
    /\ UNCHANGED <<supUnchanged, took>>

(***************************************************************************)
(* The environment.                                                        *)
(***************************************************************************)
envUnchanged ==
    <<logVars, variant, cfg, prog, pc, attempts, startsAfterCancel, wait, took, result,
      supLog, relay, relayLog, fwd, unread, esc, stopCh, timer, sent, escLog>>

\* The lines of the attempt of p that its process has written so far.
Written(p) == fwd[p] + unread[p]["stdout"] + unread[p]["stderr"]

\* The child writes a line to its stdout or stderr.
ProcWrite(p, s) ==
    /\ prog = "run"
    /\ proc[p].st = "running"
    /\ Written(p) < MaxLines
    /\ unread' = [unread EXCEPT ![p][s] = @ + 1]
    /\ UNCHANGED <<relayUnchanged, relay, relayLog, fwd>>

\* The child exits of its own accord; its ends of the pipes are closed.
ProcExit(p) ==
    /\ prog = "run"
    /\ proc[p].st = "running"
    /\ proc[p].self
    /\ \E c \in ExitCodes :
          proc' = [proc EXCEPT ![p] =
                      [@ EXCEPT !.st = "zombie", !.code = c, !.by = "self"]]
    /\ pipe' = [pipe EXCEPT ![p] = "eof"]
    /\ UNCHANGED <<envUnchanged, ctxDone>>

\* The child dies of the kill, or of an interrupt it does not ignore; an
\* interrupted child may also wind down and exit with a status of its own.
ProcDie(p) ==
    /\ prog = "run"
    /\ proc[p].st = "running"
    /\ \/ /\ proc[p].pending = "KILL"
          /\ proc' = [proc EXCEPT ![p] =
                         [@ EXCEPT !.st = "zombie", !.signaled = TRUE,
                                   !.by = "kill"]]
       \/ /\ proc[p].pending = "INT"
          /\ ~proc[p].ign
          /\ \/ proc' = [proc EXCEPT ![p] =
                            [@ EXCEPT !.st = "zombie", !.signaled = TRUE,
                                      !.by = "int"]]
             \/ \E c \in ExitCodes :
                   proc' = [proc EXCEPT ![p] =
                               [@ EXCEPT !.st = "zombie", !.code = c,
                                         !.by = "int"]]
    /\ pipe' = [pipe EXCEPT ![p] = "eof"]
    /\ UNCHANGED <<envUnchanged, ctxDone>>

\* The first termination request: cancel().
Cancel ==
    /\ prog = "run"
    /\ ~ctxDone
    /\ ctxDone' = TRUE
    /\ UNCHANGED <<envUnchanged, proc, pipe>>

Next ==
    \/ Cancel
    \/ \E p \in Procs : PipeFail(p)
    \/ \E p \in Procs : StartFail(p)
    \/ \E p \in Procs : StartOK(p)
    \/ \E p \in Procs, s \in Streams : RelayLine(p, s)
    \/ \E p \in Procs, s \in Streams : RelayEOF(p, s)
    \/ \E p \in Procs, s \in Streams : RelayErr(p, s)
    \/ \E p \in Procs : WgWait(p)
    \/ \E p \in Procs : CmdWait(p)
    \/ \E p \in Procs : RunOnceReturn(p)
    \/ \E p \in Procs : SupAfterRun(p)
    \/ \E p \in Procs : SleepTimer(p)
    \/ \E p \in Procs : SleepCancel(p)
    \/ \E p \in Procs : HandlerStop(p)
    \/ \E p \in Procs : EscCancel(p)
    \/ \E p \in Procs : EscStop(p)
    \/ \E p \in Procs : Tick(p)
    \/ \E p \in Procs : EscKill(p)
    \/ \E p \in Procs, s \in Streams : ProcWrite(p, s)
    \/ \E p \in Procs : ProcExit(p)
    \/ \E p \in Procs : ProcDie(p)

Spec == Init /\ [][Next]_vars

\* What the Go scheduler, the clock and the kernel guarantee: a goroutine that
\* can run does run, a timer that has started does fire, a process that has
\* been killed, or interrupted without ignoring it, does die and end-of-file
\* is then read from its pipes.  Nothing makes a process exit by itself, a
\* read fail, a line appear or the termination request arrive.
Fairness ==
    \A p \in Procs :
        /\ WF_vars(WgWait(p))
        /\ WF_vars(CmdWait(p))
        /\ WF_vars(RunOnceReturn(p))
        /\ WF_vars(SupAfterRun(p))
        /\ WF_vars(SleepCancel(p))
        /\ WF_vars(HandlerStop(p))
        /\ WF_vars(EscCancel(p))
        /\ WF_vars(EscStop(p))
        /\ WF_vars(Tick(p))
        /\ WF_vars(EscKill(p))
        /\ WF_vars(ProcDie(p))
        /\ \A s \in Streams : WF_vars(RelayLine(p, s)) /\ WF_vars(RelayEOF(p, s))

FairSpec == Init /\ [][Next]_vars /\ Fairness


(***************************************************************************)
(* Properties of the supervisor loop.                                      *)
(***************************************************************************)
\* RunProcess has returned: no step takes the supervisor back into the loop.
StoppedIsFinal(p) ==
    pc[p] \in {"stopped", "done"} =>
        /\ pc'[p] \in {"stopped", "done"}
        /\ attempts'[p] = attempts[p]
        /\ supLog'[p] = supLog[p]

\* The step of supervisor p out of "RunProcessOnce has returned" is the stop:
\* one line logged, the result line, no wait computed, no attempt started.
StopsWithOneLine(p) ==
    /\ pc'[p] = "stopped"
    /\ Len(supLog[p]) = 0
    /\ Len(supLog'[p]) = 1
    /\ supLog'[p][1].kind = "exit"
    /\ wait'[p] = wait[p]
    /\ attempts'[p] = attempts[p]

\* C1: when RunProcessOnce has returned and the context is cancelled, the
\* supervisor stops: it logs the result line only, computes no wait, logs
\* no "will restart" line and starts no further attempt, whatever the exit
\* code and whatever NoRestartOn holds.
C1_CancelledReturnStops ==
    [][\A p \in Procs :
          /\ (pc[p] = "ret" /\ ctxDone /\ pc'[p] # "ret") => StopsWithOneLine(p)
          /\ StoppedIsFinal(p)]_vars

\* A supervisor stopped by the cancellation alone: the exit code it got is not
\* in its NoRestartOn.
C1_Witness ==
    \E p \in Procs :
        /\ pc[p] = "stopped"
        /\ ctxDone
        /\ Len(supLog[p]) = 1
        /\ ~InNoRestartOn(p, result[p].code)

\* C2 as claimed: once the context is cancelled, no supervisor that has been
\* through a restart sleep calls RunProcessOnce again.
C2_NoRunAfterCancel ==
    \A p \in Procs :
        (attempts[p] >= 2 /\ ctxDone /\ proc[p].st = "running") =>
            startsAfterCancel[p] = 0

\* C2 as amended: a supervisor parked in its restart sleep when the context is
\* cancelled leaves the sleep for STOPPED and calls RunProcessOnce no more; a
\* supervisor whose wait timer fired first calls it once more, and only once.
C2_SleepAbortedByCancel ==
    /\ [][\A p \in Procs :
             (pc[p] = "sleep" /\ ctxDone /\ pc'[p] # "sleep") =>
                 (pc'[p] = "stopped" /\ attempts'[p] = attempts[p])]_vars
    /\ [](\A p \in Procs : startsAfterCancel[p] <= 1)

\* A supervisor that the cancellation took out of its restart sleep.
C2_Witness ==
    \E p \in Procs :
        /\ pc[p] = "stopped"
        /\ ctxDone
        /\ Len(supLog[p]) = 2
        /\ supLog[p][2].kind = "restart"

\* C3: when RunProcessOnce has returned an exit code that is in NoRestartOn
\* and the context is not cancelled, the supervisor logs one line, the result,
\* and stops: no "will restart" line, no sleep, no further attempt.
C3_NoRestartCodeStops ==
    [][\A p \in Procs :
          /\ (/\ pc[p] = "ret"
              /\ ~ctxDone
              /\ InNoRestartOn(p, result[p].code)
              /\ pc'[p] # "ret") => StopsWithOneLine(p)
          /\ StoppedIsFinal(p)]_vars

\* A supervisor stopped by a listed exit code, the context not cancelled.
C3_Witness ==
    \E p \in Procs :
        /\ pc[p] = "stopped"
        /\ ~ctxDone
        /\ Len(supLog[p]) = 1
        /\ InNoRestartOn(p, result[p].code)


(***************************************************************************)
(* Properties of RunProcessOnce.                                           *)
(***************************************************************************)
\* RunProcessOnce of supervisor p has returned from a process it had started.
ReturnedFromProcess(p) == pc[p] = "ret" /\ proc[p].st # "none"

\* C4 as claimed: a started process that exits of its own accord with a
\* non-zero status c, the context not cancelled, makes RunProcessOnce return
\* the exit code c with the "process exited" error.
C4_AbnormalExitCode ==
    \A p \in Procs :
        (/\ ReturnedFromProcess(p)
         /\ ~ctxDone
         /\ proc[p].by = "self"
         /\ proc[p].code # 0) =>
            result[p] = [code |-> proc[p].code, err |-> "exited"]

\* C5 as claimed: with the context not cancelled, a first run that exits with
\* a non-zero status listed in NoRestartOn is the only run: the supervisor
\* logs that exit code and stops.
C5_ListedExitRunsOnce ==
    \A p \in Procs :
        (/\ ~ctxDone
         /\ attempts[p] = 1
         /\ proc[p].st = "reaped"
         /\ proc[p].by = "self"
         /\ proc[p].code # 0
         /\ InNoRestartOn(p, proc[p].code)
         /\ pc[p] \notin {"closeStop", "ret"}) =>
            /\ pc[p] \in {"stopped", "done"}
            /\ Len(supLog[p]) = 1
            /\ supLog[p][1].hasCode
            /\ supLog[p][1].code = proc[p].code

C7_CancelledRun ==
    \A p \in Procs :
        (/\ variant = "lib"
         /\ ReturnedFromProcess(p)
         /\ proc[p].by \in {"int", "kill"}) =>
            /\ result[p] = [code |-> -1, err |-> "ctx"]
            /\ proc[p].st = "reaped"
            /\ sent[p] # <<>>
            /\ sent[p][1].sig = "INT"
            /\ \A i \in 1..Len(sent[p]) : sent[p][i].scope = "group"

\* RunProcessOnce of pmuxlib has returned from a process that went down by the
\* escalator's signal.
C7_Witness ==
    \E p \in Procs :
        /\ variant = "lib"
        /\ ReturnedFromProcess(p)
        /\ proc[p].by = "int"
        /\ proc[p].signaled
        /\ result[p].err = "ctx"

\* C8 as claimed: pmuxlib.  RunProcessOnce returns the cancelled result only
\* for a process that exited non-zero by the escalator's signal; a process
\* that exits 0 by itself is reported as (0, nil); and the process has been
\* signalled if and only if the cancelled result is returned.
C8_CancelledOnlyIfSignalled ==
    \A p \in Procs :
        (variant = "lib" /\ ReturnedFromProcess(p)) =>
            /\ result[p].err = "ctx" =>
                  (ctxDone /\ WaitErr(proc[p]) /\ proc[p].by \in {"int", "kill"})
            /\ (proc[p].by = "self" /\ proc[p].code = 0) =>
                  result[p] = [code |-> 0, err |-> "nil"]
            /\ sent[p] # <<>> <=> result[p].err = "ctx"

(***************************************************************************)
(* Properties of the escalator.                                            *)
(***************************************************************************)
\* C9 as claimed, for every generation of RunProcessOnce: past the first
\* select by the cancellation, the interrupt has been sent; a kill is the
\* second signal of the attempt, after the interrupt, after SigKillWait has
\* run out, and not after stopCh has been closed; no signal is sent twice.
C9_EscalationOrder ==
    \A p \in Procs :
        /\ esc[p] = "sel2" => (sent[p] # <<>> /\ sent[p][1].sig = "INT")
        /\ Len(sent[p]) <= 2
        /\ \A i \in 1..Len(sent[p]) :
              IF sent[p][i].sig = "KILL"
              THEN /\ i = 2
                   /\ sent[p][1].sig = "INT"
                   /\ TimerFired(p)
                   /\ ~sent[p][i].late
              ELSE i = 1


\* A kill has been sent by the escalator of p with its log line.
KillIssued(p) ==
    /\ \E i \in 1..Len(sent[p]) : sent[p][i].sig = "KILL"
    /\ \E i \in 1..Len(escLog[p]) :
          escLog[p][i] \in {"sending killed signal", "forcefully killing process"}

\* The context is cancelled and the child of p runs, ignores the interrupt
\* and does not exit by itself.
StubbornUnderCancel(p) ==
    /\ prog = "run"
    /\ ctxDone
    /\ proc[p].st = "running"
    /\ proc[p].ign
    /\ ~proc[p].self

\* C10: under fair scheduling, a running process that ignores the interrupt
\* after the cancellation is killed, with the kill logged and sent when
\* SigKillWait has run out and not before; it is waited for, RunProcessOnce
\* and RunProcess return and the process handler logs that it has stopped.
C10_StubbornIsKilled ==
    \A p \in Procs :
        StubbornUnderCancel(p) ~>
            (/\ pc[p] = "done"
             /\ proc[p].st = "reaped"
             /\ proc[p].by = "kill"
             /\ KillIssued(p)
             /\ timer[p] >= cfg[p].SigKillWait)

\* The handler of a process that ignored the interrupt and was killed has
\* stopped.
C10_Witness ==
    \E p \in Procs :
        /\ pc[p] = "done"
        /\ proc[p].ign
        /\ proc[p].by = "kill"
        /\ KillIssued(p)

(***************************************************************************)
(* Failures of the signal delivery and of the start.                       *)
(***************************************************************************)
\* C11 as claimed: a signal that cannot be delivered aborts nothing: no
\* goroutine of the program panics, whatever the escalators have sent and
\* whatever state the signalled processes were in.
C11_SignalFailureAbortsNothing == prog # "panic"

\* C12 as claimed: RunProcessOnce that has returned without a started process
\* has returned -1 with the start error, and no relay and no escalator of
\* that attempt exists.
C12_FailedStartCreatesNothing ==
    \A p \in Procs :
        (pc[p] = "ret" /\ proc[p].st = "none") =>
            /\ result[p] = [code |-> -1, err |-> "start"]
            /\ \A s \in Streams : relay[p][s] = "none"
            /\ esc[p] = "none"

(***************************************************************************)
(* The backoff of the supervisor loop.                                     *)
(*                                                                         *)
(* BackoffSpec runs the loops of two supervisors over a range of MinWait / *)
(* MaxWait settings.  Every RunProcessOnce returns from the pipe set-up,   *)
(* after any duration up to MaxTook: the wait computation reads nothing of *)
(* an attempt but its duration.                                            *)
(***************************************************************************)
\* The <<minWait, maxWait>> settings explored, in half milliseconds; <<0, 0>>
\* takes the defaults.  After withDefaults 0 < MinWait <= MaxWait in each.
WaitChoices == {<<2, 2>>, <<2, 4>>, <<2, 6>>, <<3, 7>>, <<4, 6>>, <<0, 0>>}

BackoffConfigs ==
    {[p \in Procs |->
         withDefaults(ProcessConfig(p, nr, w[p][1], w[p][2], 2))] :
        nr \in {<<>>, <<0, -1>>}, w \in [Procs -> WaitChoices]}

BackoffInit ==
    /\ variant \in Variants
    /\ cfg \in BackoffConfigs
    /\ timeFmt = FALSE
    /\ Idle(Procs)

BackoffNext ==
    \/ \E p \in Procs : PipeFail(p)
    \/ \E p \in Procs : SupAfterRun(p)
    \/ \E p \in Procs : SleepTimer(p)
    \/ \E p \in Procs : HandlerStop(p)

BackoffSpec == BackoffInit /\ [][BackoffNext]_vars

\* The step of supervisor p from "RunProcessOnce has returned" into the restart
\* sleep: the step that computes and logs the next wait.
ComputesWait(p) == pc[p] = "ret" /\ pc'[p] = "sleep"

\* The "will restart" line of the sleeping supervisor p shows its wait.
LoggedWait(p) ==
    /\ Len(supLog[p]) = 2
    /\ supLog[p][2] = RestartLine(wait[p])

\* C13: the wait a supervisor sleeps on, which is also the wait it has logged,
\* lies between MinWait and MaxWait, for every duration of the attempts.
C13_WaitWithinBounds ==
    \A p \in Procs :
        pc[p] = "sleep" =>
            /\ cfg[p].MinWait <= wait[p]
            /\ wait[p] <= cfg[p].MaxWait
            /\ LoggedWait(p)

\* A supervisor sleeps MinWait where twice the previous wait less the duration
\* of the attempt was negative.
C13_Witness ==
    \E p \in Procs :
        /\ pc[p] = "sleep"
        /\ attempts[p] = 1
        /\ took[p] > 0
        /\ wait[p] = cfg[p].MinWait

\* C14: an attempt that took less than the previous wait, by a millisecond or
\* more, is followed by a longer wait, or by MaxWait when the previous wait
\* was MaxWait already; no wait is above MaxWait.
C14_BackoffGrows ==
    [][\A p \in Procs :
          (ComputesWait(p) /\ took'[p] + Millisecond <= wait[p]) =>
              /\ wait'[p] <= cfg[p].MaxWait
              /\ IF wait[p] < cfg[p].MaxWait
                 THEN wait'[p] > wait[p]
                 ELSE wait'[p] = cfg[p].MaxWait]_vars

\* Three attempts that failed at once have taken the wait of a supervisor from
\* MinWait up to MaxWait.
C14_Witness ==
    \E p \in Procs :
        /\ pc[p] = "sleep"
        /\ attempts[p] = MaxAttempts
        /\ took[p] = 0
        /\ cfg[p].MinWait < cfg[p].MaxWait
        /\ wait[p] = cfg[p].MaxWait

\* C15: an attempt that took twice the previous wait or more (so every
\* attempt that took twice MaxWait or more) is followed by a wait of MinWait.
C15_BackoffResets ==
    [][\A p \in Procs :
          (/\ ComputesWait(p)
           /\ \/ took'[p] >= 2 * wait[p]
              \/ took'[p] >= 2 * cfg[p].MaxWait) =>
              wait'[p] = cfg[p].MinWait]_vars

\* A supervisor beyond its first restart sleeps MinWait after an attempt that
\* took twice MaxWait.
C15_Witness ==
    \E p \in Procs :
        /\ pc[p] = "sleep"
        /\ attempts[p] >= 2
        /\ took[p] >= 2 * cfg[p].MaxWait
        /\ cfg[p].MinWait < cfg[p].MaxWait
        /\ wait[p] = cfg[p].MinWait

\* C16: the wait of a supervisor is 0 until its first attempt has returned,
\* the first restart waits MinWait of its own configuration whatever the
\* first attempt took, and a step of one supervisor leaves the wait of the
\* other alone.
C16_FirstRestartWaitsMinWait ==
    /\ [](\A p \in Procs : attempts[p] = 0 => wait[p] = 0)
    /\ [][\A p \in Procs :
             /\ (ComputesWait(p) /\ attempts[p] = 1) =>
                    (wait'[p] = cfg[p].MinWait /\ LoggedWait(p)')
             /\ wait'[p] # wait[p] => ComputesWait(p)]_vars

\* Two supervisors with different MinWait, one in its first restart sleep
\* after an attempt that took the longest, the other past its first restart
\* on a longer wait.
C16_Witness ==
    \E p, q \in Procs :
        /\ p # q
        /\ pc[p] = "sleep"
        /\ attempts[p] = 1
        /\ took[p] = MaxTook
        /\ wait[p] = cfg[p].MinWait
        /\ attempts[q] >= 2
        /\ wait[q] > cfg[q].MinWait
        /\ cfg[q].MinWait # cfg[p].MinWait

(***************************************************************************)
(* The loggers: println, the flusher and Close.                            *)
(*                                                                         *)
(* What a logger writes is kept as fragments, one per Fprintf call: the    *)
(* timestamp of a line (when cfg.TimeFormat is set) and the line itself.   *)
(***************************************************************************)
\* Everything but prog and the state of the loggers.
supVars ==
    <<variant, cfg, ctxDone, pc, attempts, startsAfterCancel, wait, took,
      result, supLog, proc, pipe, relay, relayLog, fwd, unread, esc, stopCh, timer,
      sent, escLog>>

Fragment(by, n, part) == [by |-> by, n |-> n, part |-> part]

\* Mutant: a full buffer is dropped, not written out.
Put_DropsFull(s, f) ==
    IF Len(s.buf) >= BufCap
    THEN [s EXCEPT !.buf = <<f>>]
    ELSE [s EXCEPT !.buf = Append(@, f)]

\* bufio.Writer.Write: a full buffer is written out before more is taken in.
Put(s, f) ==
    IF Len(s.buf) >= BufCap
    THEN [s EXCEPT !.dest = @ \o s.buf, !.buf = <<f>>]
    ELSE [s EXCEPT !.buf = Append(@, f)]

\* bufio.Writer.Flush.
Flush(s) == [s EXCEPT !.dest = @ \o s.buf, !.buf = <<>>]

\* fmt.Fprintf(l.outBuf, ...) and l.outBuf.Flush() of the struct h: its outBuf
\* is the bufio.Writer of its root, or after a Close one over ioutil.Discard.
Fprintf(s, h, f) == IF target[h] = "real" THEN Put(s, f) ELSE s
FlushOf(s, h) == IF target[h] = "real" THEN Flush(s) ELSE s

\* println as a whole, as run by a goroutine that holds the mutex throughout.
Println(s, h, by) ==
    LET s1 == IF timeFmt THEN Fprintf(s, h, Fragment(by, 1, "time")) ELSE s
        s2 == Fprintf(s1, h, Fragment(by, 1, "line"))
    IN  IF Buffered(variant) THEN s2 ELSE FlushOf(s2, h)

\* Mutant: l.l.Lock() does not wait.
CanLock_Always(r) == TRUE

\* l.l.Lock() returns: the mutex the root and its views share is free.
CanLock(r) == sink[r].mu = "free"

\* The label and the width a println of the struct h works with.
Padded(h) ==
    [width |-> maxPNameLen[RootOf(variant, h)],
     count |-> PaddingCount(variant, maxPNameLen[RootOf(variant, h)], pname[h])]

\* withPName / WithPrefix in the handler of a configured process: the view is
\* a copy of its parent as the parent is now, with the name of the process for
\* its label; under the mutex, the width of the root grows to the label.
WithPName(w) ==
    /\ prog = "run"
    /\ ~Flat(variant)
    /\ writer[w].pc = "none"
    /\ target[ParentOf(variant, w)] # "none"
    /\ CanLock(RootOf(variant, w))
    /\ \E p \in Procs :
          /\ pc[p] # "none"
          /\ pname' = [pname EXCEPT ![w] = cfg[p].Name]
          /\ maxPNameLen' = [maxPNameLen EXCEPT ![RootOf(variant, w)] =
                                 RegisterWidth(@, cfg[p].Name)]
    /\ target' = [target EXCEPT ![w] = target[ParentOf(variant, w)]]
    /\ writer' = [writer EXCEPT ![w].pc = "idle"]
    /\ UNCHANGED <<supVars, padding, prog, timeFmt, sink, closer>>

\* The handler goroutine of the flat logger: runProcess gets the one logger
\* and the configured process, whose name it passes to every Println.
FlatHandler(w) ==
    /\ prog = "run"
    /\ Flat(variant)
    /\ writer[w].pc = "none"
    /\ \E p \in Procs :
          /\ pc[p] # "none"
          /\ pname' = [pname EXCEPT ![w] = cfg[p].Name]
    /\ target' = [target EXCEPT ![w] = target["stdout"]]
    /\ writer' = [writer EXCEPT ![w].pc = "idle"]
    /\ UNCHANGED <<supVars, maxPNameLen, padding, prog, timeFmt, sink, closer>>

\* println, first half: Lock, and the timestamp if there is one.
PrintLock(w) ==
    /\ prog = "run"
    /\ writer[w].pc = "idle"
    /\ writer[w].n < MaxWrites
    /\ CanLock(RootOf(variant, w))
    /\ sink' = [sink EXCEPT ![RootOf(variant, w)] =
                   LET s1 == [@ EXCEPT !.mu = w]
                   IN  IF timeFmt
                       THEN Fprintf(s1, w, Fragment(w, writer[w].n + 1, "time"))
                       ELSE s1]
    /\ writer' = [writer EXCEPT ![w].pc = "line"]
    /\ UNCHANGED <<supVars, labelVars, prog, timeFmt, target, closer>>

\* println, second half: the label padded to the width, on which
\* strings.Repeat panics if the count is negative; the line, the Flush of the
\* unbuffered logger, Unlock.
PrintLine(w) ==
    /\ prog = "run"
    /\ writer[w].pc = "line"
    /\ padding' = [padding EXCEPT ![w] = Padded(w)]
    /\ IF Padded(w).count < 0
       THEN /\ prog' = "panic"
            /\ UNCHANGED <<sink, writer>>
       ELSE /\ sink' = [sink EXCEPT ![RootOf(variant, w)] =
                           LET s1 == Fprintf(@, w, Fragment(w, writer[w].n + 1, "line"))
                               s2 == IF Buffered(variant) THEN s1 ELSE FlushOf(s1, w)
                           IN  [s2 EXCEPT !.mu = "free"]]
            /\ writer' = [writer EXCEPT ![w] = [pc |-> "idle", n |-> @.n + 1]]
            /\ prog' = prog
    /\ UNCHANGED <<supVars, maxPNameLen, pname, timeFmt, target, closer>>

\* flusher, case <-ticker.C: the flusher goes for the mutex.
FlusherTick(r) ==
    /\ prog = "run"
    /\ sink[r].flusher = "select"
    /\ sink' = [sink EXCEPT ![r].flusher = "lock"]
    /\ UNCHANGED <<supVars, labelVars, prog, timeFmt, target, writer, closer>>

\* flusher: Lock, l.outBuf.Flush(), Unlock.
FlusherFlush(r) ==
    /\ prog = "run"
    /\ sink[r].flusher = "lock"
    /\ CanLock(r)
    /\ sink' = [sink EXCEPT ![r] = [FlushOf(@, r) EXCEPT !.flusher = "select"]]
    /\ UNCHANGED <<supVars, labelVars, prog, timeFmt, target, writer, closer>>

\* flusher, case <-l.closeCh: return, wg.Done().
FlusherStop(r) ==
    /\ prog = "run"
    /\ sink[r].flusher = "select"
    /\ sink[r].closeCh
    /\ sink' = [sink EXCEPT ![r].flusher = "done"]
    /\ UNCHANGED <<supVars, labelVars, prog, timeFmt, target, writer, closer>>

\* The struct that the closer c is about to close.
ClosingHandle(c) ==
    IF c = "main" THEN CloseOrder(variant)[closer[c].i] ELSE SysHandle(variant)

\* Close, first half: Lock, and in main.go close(l.closeCh), which panics on
\* a channel that is closed already.
CloseLock(c) ==
    LET r == RootOf(variant, ClosingHandle(c))
    IN  /\ prog = "run"
        /\ closer[c].pc = "close"
        /\ CanLock(r)
        /\ prog' = IF Buffered(variant) /\ sink[r].closeCh THEN "panic" ELSE prog
        /\ sink' = [sink EXCEPT ![r] =
                       [@ EXCEPT !.mu = c, !.closeCh = Buffered(variant)]]
        /\ closer' = [closer EXCEPT ![c].pc = "locked"]
        /\ UNCHANGED <<supVars, labelVars, timeFmt, target, writer>>

\* Close, second half: in main.go l.wg.Wait() for the flusher; then Flush, out
\* and outBuf of this struct go to ioutil.Discard, Unlock.
CloseFinish(c) ==
    LET h == ClosingHandle(c)
        r == RootOf(variant, h)
    IN  /\ prog = "run"
        /\ closer[c].pc = "locked"
        /\ Buffered(variant) => sink[r].flusher = "done"
        /\ sink' = [sink EXCEPT ![r] = [FlushOf(@, h) EXCEPT !.mu = "free"]]
        /\ target' = [target EXCEPT ![h] = "discard"]
        /\ closer' = [closer EXCEPT ![c] =
                         IF c = "main" /\ @.i < Len(CloseOrder(variant))
                         THEN [pc |-> "close", i |-> @.i + 1]
                         ELSE [@ EXCEPT !.pc = "closed"]]
        /\ UNCHANGED <<supVars, labelVars, prog, timeFmt, writer>>

(***************************************************************************)
(* main / Run and the signal goroutine.                                    *)
(***************************************************************************)
\* Mutant: wg.Wait() returns when the first handler has called wg.Done().
HandlersDone_AnyOne == \E p \in Procs : pc[p] = "done"

\* Every process handler has called wg.Done().
HandlersDone == \A p \in Procs : pc[p] \in {"none", "done"}

\* The deferred wg.Wait() of main / Run returns.
MainWgWait ==
    /\ prog = "run"
    /\ closer["main"].pc = "wgWait"
    /\ HandlersDone
    /\ closer' = [closer EXCEPT !["main"].pc = "ciao"]
    /\ UNCHANGED <<supVars, labelVars, prog, timeFmt, sink, target, writer>>

\* The deferred Println("exited gracefully, ciao!").
MainCiao ==
    LET h == SysHandle(variant)
        r == RootOf(variant, h)
    IN  /\ prog = "run"
        /\ closer["main"].pc = "ciao"
        /\ CanLock(r)
        /\ padding' = [padding EXCEPT !["main"] = Padded(h)]
        /\ IF Padded(h).count < 0
           THEN /\ prog' = "panic"
                /\ UNCHANGED <<sink, closer>>
           ELSE /\ sink' = [sink EXCEPT ![r] = Println(@, h, "main")]
                /\ closer' = [closer EXCEPT !["main"].pc = "close"]
                /\ prog' = prog
        /\ UNCHANGED <<supVars, maxPNameLen, pname, timeFmt, target, writer>>

\* main returns when its deferred Close calls have returned: exit status 0.
MainReturn ==
    /\ prog = "run"
    /\ closer["main"].pc = "closed"
    /\ prog' = "exit0"
    /\ closer' = [closer EXCEPT !["main"].pc = "returned"]
    /\ UNCHANGED <<supVars, labelVars, timeFmt, sink, target, writer>>

\* The signal goroutine of main gets a second termination request and logs
\* "forcefully exiting pmux process".  pmuxlib.Run has no such goroutine.
SigForce ==
    LET h == SysHandle(variant)
        r == RootOf(variant, h)
    IN  /\ prog = "run"
        /\ variant # "lib"
        /\ ctxDone
        /\ closer["sig"].pc = "idle"
        /\ CanLock(r)
        /\ padding' = [padding EXCEPT !["sig"] = Padded(h)]
        /\ IF Padded(h).count < 0
           THEN /\ prog' = "panic"
                /\ UNCHANGED <<sink, closer>>
           ELSE /\ sink' = [sink EXCEPT ![r] = Println(@, h, "sig")]
                /\ closer' = [closer EXCEPT !["sig"].pc = "close"]
                /\ prog' = prog
        /\ UNCHANGED <<supVars, maxPNameLen, pname, timeFmt, target, writer>>

\* os.Exit(1) after the Close of the signal goroutine.
SigExit ==
    /\ prog = "run"
    /\ closer["sig"].pc = "closed"
    /\ prog' = "exit1"
    /\ closer' = [closer EXCEPT !["sig"].pc = "exited"]
    /\ UNCHANGED <<supVars, labelVars, timeFmt, sink, target, writer>>

(***************************************************************************)
(* LogSpec: the loggers under concurrent writers and closers.  One process *)
(* handler whose attempt cannot be set up and is not restarted; its relay  *)
(* and its supervisor log at any time through their views.                 *)
(***************************************************************************)
LogConfigs ==
    {[p \in Procs |-> withDefaults(ProcessConfig(p, <<0, -1>>, 2, 6, 2))]}

LogInit ==
    /\ variant \in Variants
    /\ cfg \in LogConfigs
    /\ timeFmt \in BOOLEAN
    /\ Idle(OneProcess)

LogNext ==
    \/ Cancel
    \/ \E p \in Procs : PipeFail(p)
    \/ \E p \in Procs : SupAfterRun(p)
    \/ \E p \in Procs : HandlerStop(p)
    \/ \E w \in Writers : WithPName(w)
    \/ \E w \in Writers : PrintLock(w)
    \/ \E w \in Writers : PrintLine(w)
    \/ \E r \in Roots : FlusherTick(r)
    \/ \E r \in Roots : FlusherFlush(r)
    \/ \E r \in Roots : FlusherStop(r)
    \/ \E c \in Closers : CloseLock(c)
    \/ \E c \in Closers : CloseFinish(c)
    \/ MainWgWait
    \/ MainCiao
    \/ MainReturn
    \/ SigForce
    \/ SigExit

LogSpec == LogInit /\ [][LogNext]_vars

(***************************************************************************)
(* Properties of the loggers.                                              *)
(***************************************************************************)
\* What has reached the destination of the root r, followed by what its
\* bufio.Writer still holds: the bytes in the order they go out.
Stream(r) == sink[r].dest \o sink[r].buf

\* C17: in what goes out to a destination every timestamp is directly followed
\* by the line of the same println call and every line of a timestamped log
\* directly follows its own timestamp, so that no line holds content of two
\* calls; and no fragment goes out twice.  The one exception is the timestamp
\* at the very end, whose writer is still in println.
C17_LinesAreWhole ==
    \A r \in Roots :
        LET s == Stream(r)
        IN  /\ \A i \in 1..Len(s) :
                  /\ (s[i].part = "time" /\ i < Len(s)) =>
                         s[i + 1] = [s[i] EXCEPT !.part = "line"]
                  /\ (s[i].part = "line" /\ timeFmt) =>
                         (i > 1 /\ s[i - 1] = [s[i] EXCEPT !.part = "time"])
            /\ \A i, j \in 1..Len(s) : i # j => s[i] # s[j]

\* Timestamped lines of both writers have reached the destination of the
\* buffered logger, whose flusher runs, while a writer is inside println.
C17_Witness ==
    \E r \in Roots, w \in Writers :
        /\ timeFmt
        /\ Buffered(variant)
        /\ sink[r].flusher \in {"select", "lock"}
        /\ writer[w].pc = "line"
        /\ Len(sink[r].dest) >= 4
        /\ sink[r].dest[1].by \in Writers
        /\ sink[r].dest[3].by \in Writers \ {sink[r].dest[1].by}

\* C18 as claimed: a goroutine that is inside Close, or through it, has not
\* panicked, whoever closed the logger before it.
C18_CloseTwiceNeverPanics ==
    \A c \in Closers :
        closer[c].pc \in {"locked", "closed", "returned", "exited"} =>
            prog # "panic"

\* C19 as claimed: once Close has returned on a root logger, nothing more
\* reaches the destination of that root, whichever struct a line is written
\* through.
C19_NoWriteAfterClose ==
    [][\A r \in Roots :
          target[r] = "discard" => sink'[r].dest = sink[r].dest]_vars

(***************************************************************************)
(* OrchSpec: main / Run with the handlers of two processes, the            *)
(* termination requests and the closing of the loggers.  Every             *)
(* RunProcessOnce returns from the pipe set-up: main reads nothing of a    *)
(* handler but its wg.Done().                                              *)
(***************************************************************************)
OrchConfigs ==
    {[p \in Procs |-> withDefaults(ProcessConfig(p, nr[p], 2, 6, 2))] :
        nr \in [Procs -> {<<>>, <<0, -1>>}]}

OrchInit ==
    /\ variant \in Variants
    /\ cfg \in OrchConfigs
    /\ timeFmt = FALSE
    /\ Idle(Procs)

OrchNext ==
    \/ Cancel
    \/ \E p \in Procs : PipeFail(p)
    \/ \E p \in Procs : SupAfterRun(p)
    \/ \E p \in Procs : SleepTimer(p)
    \/ \E p \in Procs : SleepCancel(p)
    \/ \E p \in Procs : HandlerStop(p)
    \/ \E r \in Roots : FlusherTick(r)
    \/ \E r \in Roots : FlusherFlush(r)
    \/ \E r \in Roots : FlusherStop(r)
    \/ \E c \in Closers : CloseLock(c)
    \/ \E c \in Closers : CloseFinish(c)
    \/ MainWgWait
    \/ MainCiao
    \/ MainReturn
    \/ SigForce
    \/ SigExit

OrchSpec == OrchInit /\ [][OrchNext]_vars

(***************************************************************************)
(* Properties of main / Run.                                               *)
(***************************************************************************)
\* The "exited gracefully, ciao!" line has been written.
CiaoWritten ==
    \E i \in 1..Len(Stream(RootOf(variant, SysHandle(variant)))) :
        Stream(RootOf(variant, SysHandle(variant)))[i] = Fragment("main", 1, "line")

\* Every supervisor is STOPPED: RunProcess has returned in every handler and
\* the handler has logged that it stopped.
SupervisorsStopped == \A p \in Procs : pc[p] \in {"none", "done"}

\* C20: on the graceful path, that is, with no second termination request:
\* main is past its wg.Wait() only when every handler has returned from
\* RunProcess and called wg.Done(); the "exited gracefully" line is written
\* and a logger closed only past that wait, the line before the first Close;
\* and the program has exited only with status 0, every root logger flushed
\* and closed and the line at its destination.
C20_GracefulShutdownOrder ==
    closer["sig"].pc = "idle" =>
        /\ closer["main"].pc # "wgWait" => SupervisorsStopped
        /\ CiaoWritten => closer["main"].pc \notin {"wgWait", "ciao"}
        /\ \A h \in Handles :
              target[h] = "discard" =>
                  (SupervisorsStopped /\ CiaoWritten /\ closer["main"].pc # "wgWait")
        /\ closer["main"].pc \in {"close", "locked", "closed", "returned"} =>
              CiaoWritten
        /\ prog \in {"run", "exit0"}
        /\ prog = "exit0" =>
              /\ closer["main"].pc = "returned"
              /\ \A i \in 1..Len(CloseOrder(variant)) :
                    /\ target[CloseOrder(variant)[i]] = "discard"
                    /\ sink[CloseOrder(variant)[i]].buf = <<>>

\* The program has exited with status 0 after a termination request, with two
\* handlers that had both been through a restart.
C20_Witness ==
    /\ prog = "exit0"
    /\ ctxDone
    /\ closer["sig"].pc = "idle"
    /\ \A p \in Procs : pc[p] = "done" /\ attempts[p] >= 2

(***************************************************************************)
(* The termination requests.                                               *)
(***************************************************************************)
\* What the scheduler guarantees to main, to the signal goroutine and to the
\* flusher: a goroutine that can take its next step does take it, and a
\* goroutine waiting for a mutex gets it when the mutex stays free.  Nothing
\* makes a termination request arrive or the ticker of the flusher fire.
OrchFairness ==
    /\ \A p \in Procs :
          /\ WF_vars(PipeFail(p))
          /\ WF_vars(SupAfterRun(p))
          /\ WF_vars(SleepCancel(p))
          /\ WF_vars(HandlerStop(p))
    /\ \A r \in Roots : WF_vars(FlusherFlush(r)) /\ WF_vars(FlusherStop(r))
    /\ \A c \in Closers : WF_vars(CloseLock(c)) /\ WF_vars(CloseFinish(c))
    /\ WF_vars(MainWgWait)
    /\ WF_vars(MainCiao)
    /\ WF_vars(MainReturn)
    /\ WF_vars(SigExit)

OrchFairSpec == OrchInit /\ [][OrchNext]_vars /\ OrchFairness

\* The signal goroutine has received the second termination request and has
\* logged the forceful-exit warning.
SecondRequestReceived == closer["sig"].pc \in {"close", "locked", "closed"}

\* C21 as claimed, in its weakest reading: once the second termination
\* request has been received the program terminates, whichever goroutine ends
\* it.
C21_ForcedExitReached == SecondRequestReceived ~> (prog # "run")

(***************************************************************************)
(* Shutdown.                                                               *)
(***************************************************************************)
\* Supervisor p is inside an attempt that has set up its process, or has the
\* result of one, or is in its restart sleep.
InLoop(p) == pc[p] \in {"wgWait", "cmdWait", "closeStop", "ret", "sleep"}

\* C22 as claimed: under fair scheduling, a supervisor that the cancellation
\* finds waiting on its relays, waiting on the exit of its process, holding
\* the result of an attempt or in its restart sleep reaches STOPPED.
C22_ShutdownReachesStopped ==
    \A p \in Procs :
        (ctxDone /\ InLoop(p)) ~> (pc[p] \in {"stopped", "done"})

(***************************************************************************)
(* The restart rule.                                                       *)
(***************************************************************************)
\* C23: a supervisor is STOPPED only with the context cancelled or with the
\* exit code that its last RunProcessOnce returned in NoRestartOn.  With the
\* context not cancelled and that code not in NoRestartOn, the supervisor
\* leaves every result (exit 0, exit non-zero, failure to start) for the
\* restart sleep, on a wait of MinWait at least that it has logged; it leaves
\* the sleep, unless the context is cancelled, for the top of the loop, and
\* the top of the loop for a new attempt.
C23_ExitedProcessIsRestarted ==
    /\ [](\A p \in Procs :
             pc[p] \in {"stopped", "done"} =>
                 (ctxDone \/ InNoRestartOn(p, result[p].code)))
    /\ [][\A p \in Procs :
             /\ (/\ pc[p] = "ret"
                 /\ ~ctxDone
                 /\ ~InNoRestartOn(p, result[p].code)
                 /\ pc'[p] # "ret") =>
                    /\ pc'[p] = "sleep"
                    /\ wait'[p] >= cfg[p].MinWait
                    /\ LoggedWait(p)'
             /\ (pc[p] = "sleep" /\ ~ctxDone /\ pc'[p] # "sleep") =>
                    pc'[p] = "start"
             /\ (pc[p] = "start" /\ pc'[p] # "start") =>
                    attempts'[p] = attempts[p] + 1]_vars

\* A supervisor whose NoRestartOn does not list 0 is in the restart sleep,
\* the context not cancelled, after a third attempt whose process exited with
\* status 0 by itself: two earlier results had been followed by a new attempt.
C23_Witness ==
    \E p \in Procs :
        /\ ~ctxDone
        /\ attempts[p] = MaxAttempts
        /\ pc[p] = "sleep"
        /\ result[p] = [code |-> 0, err |-> "nil"]
        /\ proc[p].by = "self"
        /\ ~InNoRestartOn(p, 0)

(***************************************************************************)
(* The relays and the result of RunProcessOnce.                            *)
(***************************************************************************)
\* The last attempt of p started a process and RunProcessOnce is past its
\* wg.Wait(): in cmd.Wait(), at the return, or returned.
PastWgWait(p) == proc[p].st # "none" /\ pc[p] # "wgWait"

\* C24: where the process was started, RunProcessOnce is past its wg.Wait(),
\* hence at its result, only with both relays terminated, and a relay that
\* ended on end-of-stream has left no line unread in its pipe; a line is
\* forwarded only while RunProcessOnce is inside wg.Wait(), so not after the
\* supervisor has the result, logs it or sleeps, and the result line is
\* logged only after the return.
C24_ResultAfterRelaysDrained ==
    /\ [](\A p \in Procs :
             PastWgWait(p) =>
                 \A s \in Streams :
                     /\ relay[p][s] \in {"eof", "err"}
                     /\ relay[p][s] = "eof" => unread[p][s] = 0)
    /\ [][\A p \in Procs :
             /\ fwd'[p] > fwd[p] => (pc[p] = "wgWait" /\ pc'[p] = "wgWait")
             /\ Len(supLog'[p]) > Len(supLog[p]) => pc[p] = "ret"]_vars

\* RunProcessOnce has returned from a process that was killed, and a line of
\* the attempt was forwarded before both relays ended on end-of-stream.
C24_Witness ==
    \E p \in Procs :
        /\ pc[p] = "ret"
        /\ proc[p].by = "kill"
        /\ fwd[p] = MaxLines
        /\ \A s \in Streams : relay[p][s] = "eof"

\* RunProcessOnce of supervisor p is not running: it has returned, or has not
\* been called yet.
OutsideRunOnce(p) == pc[p] \in {"start", "ret", "sleep", "stopped", "done"}

\* C25 as claimed: the relays of an attempt are retired before RunProcessOnce
\* returns, on every return path, so that outside RunProcessOnce no relay of
\* the process is alive when the next attempt makes its own.
C25_RelaysRetiredAtReturn ==
    \A p \in Procs, s \in Streams :
        OutsideRunOnce(p) => relay[p][s] # "reading"

(***************************************************************************)
(* The escalator and stopCh.                                               *)
(***************************************************************************)
\* The escalator of p is parked in one of its two selects.
EscBlocked(p) == esc[p] \in {"sel1", "sel2"}

\* C26: under fair scheduling, once stopCh is closed the escalator of the
\* attempt does not stay in either of its selects: it returns, whether the
\* process had exited by itself, after the interrupt or after the kill.  (An
\* escalator that is still to signal when stopCh is closed may bring the
\* program down instead of returning; that is the matter of C11.)
C26_EscalatorRetires ==
    \A p \in Procs :
        (stopCh[p] /\ EscBlocked(p)) ~> (esc[p] = "done" \/ prog # "run")

\* stopCh has been closed after a process that exited by itself, the context
\* never cancelled, and the escalator has returned without a signal.
C26_Witness ==
    \E p \in Procs :
        /\ stopCh[p]
        /\ ~ctxDone
        /\ proc[p].by = "self"
        /\ esc[p] = "done"
        /\ sent[p] = <<>>

(***************************************************************************)
(* The order of the lines of a relay.                                      *)
(***************************************************************************)
\* The lines that the writer w has got into what goes out to its root.
LinesOf(w) ==
    SelectSeq(Stream(RootOf(variant, w)),
              LAMBDA f : f.by = w /\ f.part = "line")

C28_ReadErrorIsSystemEvent ==
    \A p \in Procs : \A e \in relayLog[p] : e.sink = "sys"

(***************************************************************************)
(* Signals and the cancellation.                                           *)
(***************************************************************************)
\* C29: a signal has been sent to a process, or has reached it, only with the
\* context cancelled; and an escalator that leaves its first select while the
\* context is not cancelled returns without a signal and without a log line.
C29_NoSignalWithoutCancel ==
    /\ [](\A p \in Procs :
             (sent[p] # <<>> \/ proc[p].pending # "none" \/ escLog[p] # <<>>)
                 => ctxDone)
    /\ [][\A p \in Procs :
             (esc[p] = "sel1" /\ esc'[p] # "sel1" /\ ~ctxDone) =>
                 /\ stopCh[p]
                 /\ esc'[p] = "done"
                 /\ sent'[p] = <<>>
                 /\ proc'[p] = proc[p]]_vars

\* The second attempt of a supervisor: its process has exited by itself with
\* a non-zero status, the context is not cancelled, stopCh is closed and the
\* escalator has returned with nothing sent and nothing logged.
C29_Witness ==
    \E p \in Procs :
        /\ ~ctxDone
        /\ attempts[p] = 2
        /\ proc[p].st = "reaped"
        /\ proc[p].code # 0
        /\ proc[p].pending = "none"
        /\ stopCh[p]
        /\ esc[p] = "done"
        /\ sent[p] = <<>>
        /\ escLog[p] = <<>>

\* C30 as claimed, for pmuxlib, whose signals go to the kernel as they are:
\* no step of an escalator signals a process that cmd.Wait() has reaped.
C30_NoSignalToReapedProcess ==
    [][\A p \in Procs :
          (variant = "lib" /\ Len(sent'[p]) > Len(sent[p])) =>
              proc[p].st # "reaped"]_vars

(***************************************************************************)
(* The buffered logger: Close against the flusher.                         *)
(***************************************************************************)
\* C31 as claimed: no reachable state has a goroutine inside Close, holding
\* the mutex of the buffered logger and waiting in l.wg.Wait() for the flusher,
\* while the flusher waits in l.l.Lock() for that mutex.
C31_CloseNeverDeadlocks ==
    \A c \in Closers :
        LET r == RootOf(variant, ClosingHandle(c))
        IN  ~ /\ Buffered(variant)
              /\ closer[c].pc = "locked"
              /\ sink[r].mu = c
              /\ sink[r].flusher = "lock"

(***************************************************************************)
(* WidthSpec: the label column.  The handlers of two configured processes, *)
(* whose goroutines register their labels and log in any order, main and   *)
(* the signal goroutine, which log under the label of pmux itself.  No     *)
(* logger is closed, and the ticker of the flusher does not fire.          *)
(***************************************************************************)
\* The names of the two configured processes explored: shorter than "pmux"
\* and longer, equal and different.
NameChoices ==
    {<<"db", "db">>, <<"web", "db">>, <<"stubborn-pinger", "pinger">>}

WidthConfigs ==
    {[p \in Procs |->
         withDefaults(ProcessConfig(IF p = "pinger" THEN nm[1] ELSE nm[2],
                                    <<0, -1>>, 2, 6, 2))] :
        nm \in NameChoices}

WidthInit ==
    /\ variant \in Generations
    /\ cfg \in WidthConfigs
    /\ timeFmt = FALSE
    /\ Idle(Procs)

WidthNext ==
    \/ Cancel
    \/ \E p \in Procs : PipeFail(p)
    \/ \E p \in Procs : SupAfterRun(p)
    \/ \E p \in Procs : HandlerStop(p)
    \/ \E w \in Writers : WithPName(w)
    \/ \E w \in Writers : FlatHandler(w)
    \/ \E w \in Writers : PrintLock(w)
    \/ \E w \in Writers : PrintLine(w)
    \/ MainWgWait
    \/ MainCiao
    \/ SigForce

WidthSpec == WidthInit /\ [][WidthNext]_vars

(***************************************************************************)
(* Properties of the label column.                                         *)
(***************************************************************************)
\* The root logger whose width a println of the goroutine b reads.
WidthRootOf(b) ==
    RootOf(variant, IF b \in Writers THEN b ELSE SysHandle(variant))

\* This step is a withPName / WithPrefix that makes the view of w.
RegistersLabel(w) ==
    ~Flat(variant) /\ writer[w].pc = "none" /\ writer'[w].pc = "idle"

\* This step writes a line of the goroutine b.
WritesLine(b) ==
    IF b \in Writers
    THEN writer'[b].n = writer[b].n + 1
    ELSE closer[b].pc \in {"ciao", "idle"} /\ closer'[b].pc = "close"

\* C32: the label width of a root logger never gets smaller; a registration
\* makes the width of the root of the new view the larger of what it was and
\* the length of the new label, and leaves the width of the other root alone;
\* and every line, through the root or through any view of it, is padded to
\* the width the root has when the line is written, which is no less than any
\* label registered before.
C32_LabelWidthOnlyGrows ==
    [][/\ \A r \in Roots : maxPNameLen'[r] >= maxPNameLen[r]
       /\ \A w \in Writers :
             RegistersLabel(w) =>
                 \A r \in Roots :
                     maxPNameLen'[r] =
                         IF r = RootOf(variant, w) /\ Len(pname'[w]) > maxPNameLen[r]
                         THEN Len(pname'[w])
                         ELSE maxPNameLen[r]
       /\ \A b \in Loggers :
             WritesLine(b) =>
                 /\ padding'[b].width = maxPNameLen[WidthRootOf(b)]
                 /\ \A w \in Writers :
                       (~Flat(variant) /\ writer[w].pc # "none"
                            /\ RootOf(variant, w) = WidthRootOf(b)) =>
                           padding'[b].width >= Len(pname[w])]_vars

\* On a root whose width the label "stubborn-pinger" has raised to 15, the
\* view with the label "pinger", registered on the same root, has written a
\* line padded to that width, and so has the goroutine with the wide label.
C32_Witness ==
    \E w1, w2 \in Writers :
        /\ ~Flat(variant)
        /\ pname[w1] = "pinger"
        /\ pname[w2] = "stubborn-pinger"
        /\ RootOf(variant, w1) = RootOf(variant, w2)
        /\ maxPNameLen[RootOf(variant, w1)] = 15
        /\ writer[w1].n = MaxWrites
        /\ padding[w1] = [width |-> 15, count |-> 10]
        /\ padding[w2] = [width |-> 15, count |-> 1]

\* C33 as claimed: the label of every view is no longer than the width of its
\* root, and the padding count that a println has computed, through a view or
\* under the label of pmux itself, was at least 1.
C33_PaddingAtLeastOne ==
    /\ \A w \in Writers :
          writer[w].pc # "none" => Len(pname[w]) <= maxPNameLen[RootOf(variant, w)]
    /\ \A b \in Loggers : padding[b] # NoPadding => padding[b].count >= 1

====
